---- MODULE Spec2Model ----
(***************************************************************************)
(* Model of pkg/scaling/executor/scale_jobs.go: RequestJobScale and the    *)
(* functions it calls (getRunningJobCount, createJobs, cleanUp,            *)
(* deleteJobsWithHistoryLimit), run against a remote cluster API whose     *)
(* List / Create / Delete / status-update calls can each fail.             *)
(*                                                                         *)
(* One action is one remote call of an invocation together with the local  *)
(* code that runs up to the next remote call.  The remote system (the Job  *)
(* controller) finishes jobs between any two steps.                        *)
(*                                                                         *)
(* A Go pointer is modelled as a sequence: <<>> is nil, <<v>> points to v. *)
(***************************************************************************)
EXTENDS Integers, Sequences, FiniteSets, TLC

\* ------------------------------------------------------------------ bounds
MaxJobs == 3        \* job names the remote system can hand out at one time
MaxTime == 3        \* the remote system stamps times 1..MaxTime
MaxScaleTo == 2     \* scaleTo is drawn from 0..MaxScaleTo
MaxCeiling == 2     \* maxScale is drawn from 0..MaxCeiling
MaxLimit == 1       \* explicit history limits are drawn from -1..MaxLimit
MaxConds == 2       \* status conditions the remote system puts on one Job
MaxFail == 1        \* failing remote calls, where they fail finitely often

\* ------------------------------------------------------- program constants
defaultSuccessfulJobsHistoryLimit == 100
defaultFailedJobsHistoryLimit == 100

JobComplete == "Complete"
JobFailed == "Failed"
ConditionTrue == "True"

\* ------------------------------------------------------------------ inputs
Procs == {1, 2}
IDs == 1..MaxJobs

\* The ScaledJobs of the cluster: (namespace, name) is unique.
Targets ==
  { [ns |-> "ns1", name |-> "a"],
    [ns |-> "ns1", name |-> "b"] }

\* *int32 history limits of a ScaledJob spec: nil or any int32, negative included.
LimitPtrs == {<<>>} \cup { <<l>> : l \in -1..MaxLimit }

\* Template.Spec.RestartPolicy of a ScaledJob: "" when it is not set.
RestartPolicies == {"", "Never", "OnFailure", "Always"}

\* The calls RequestJobScale(ctx, scaledJob, isActive, scaleTo, maxScale).
Calls ==
  [isActive : BOOLEAN, scaleTo : 0..MaxScaleTo, maxScale : 0..MaxCeiling]

VARIABLES
  jobs,            \* the Jobs stored by the remote system (a set of records)
  inv,             \* inv[p]: the RequestJobScale invocation of worker p
  targets,         \* the ScaledJobs that exist in the cluster (fixed)
  overlap,         \* FALSE: invocations are serialized on worker 1 (fixed)
  cfg,             \* the values the callers and the cluster draw from (fixed)
  budget           \* how often remote calls can still fail and Jobs still
                   \* finish; -1: without limit

vars == <<jobs, inv, targets, overlap, cfg, budget>>

\* The zero value of batchv1.Job: what lies between len and cap of a slice.
ZeroJob ==
  [id |-> 0, ns |-> "", scaledjob |-> "", madeFor |-> <<>>,
   RestartPolicy |-> "", conds |-> <<>>, CompletionTime |-> <<>>]

\* What the callers and the cluster draw from in the general case: every call,
\* every history limit, a context that is not cancelled, a template without
\* restart policy, and a Job controller that puts one terminal condition with
\* status True on a Job.
Unrestricted ==
  [calls |-> Calls, ctxs |-> {FALSE}, policies |-> {""},
   successLimits |-> LimitPtrs, failedLimits |-> LimitPtrs,
   maxTime |-> MaxTime, condTypes |-> {JobComplete, JobFailed},
   statuses |-> {ConditionTrue}, maxConds |-> 1, history |-> FALSE]

\* Remote calls can fail and Jobs can finish without limit.
Unbounded == [fail |-> -1, finish |-> -1]

\* A remote call may fail now; budget after a failure; after a Job finished.
CanFail == budget.fail # 0
Failure == IF budget.fail > 0 THEN [budget EXCEPT !.fail = @ - 1] ELSE budget
Finished == IF budget.finish > 0 THEN [budget EXCEPT !.finish = @ - 1] ELSE budget

\* ------------------------------------------------- classification of a Job
\* Mutant of isJobFinished: the status of the condition is not tested.
isJobFinishedIgnoresStatus(j) ==
  \E c \in 1..Len(j.conds) : j.conds[c].type \in {JobComplete, JobFailed}

\* isJobFinished: some Complete or Failed condition has status True.
isJobFinished(j) ==
  \E c \in 1..Len(j.conds) :
    /\ j.conds[c].type \in {JobComplete, JobFailed}
    /\ j.conds[c].status = ConditionTrue

\* getFinishedJobConditionType: the type of the FIRST Complete or Failed
\* condition whose status is True, "" when there is none.
getFinishedJobConditionType(j) ==
  LET hits == { c \in 1..Len(j.conds) :
                  /\ j.conds[c].type \in {JobComplete, JobFailed}
                  /\ j.conds[c].status = ConditionTrue }
  IN IF hits = {} THEN ""
     ELSE j.conds[CHOOSE c \in hits : \A d \in hits : c <= d].type

\* ------------------------------------------------------ the remote system
\* Mutant of MatchesListOptions: the label selector is missing.
MatchesNamespaceOnly(j, t) == j.ns = t.ns

\* client.List with InNamespace(namespace) and MatchingLabels{"scaledjob": name}.
MatchesListOptions(j, t) == j.ns = t.ns /\ j.scaledjob = t.name

\* The items of a successful List, in the order of their names.
RECURSIVE ListFrom(_, _)
ListFrom(t, id) ==
  IF id > MaxJobs THEN <<>>
  ELSE LET here == { j \in jobs : j.id = id /\ MatchesListOptions(j, t) }
       IN (IF here = {} THEN <<>> ELSE <<CHOOSE j \in here : TRUE>>)
            \o ListFrom(t, id + 1)

List(t) == ListFrom(t, 1)

\* The Job object createJobs builds for scaledJob t (its namespace and its
\* "scaledjob" label); the remote system completes GenerateName to the name
\* id.  madeFor records the ScaledJob the Job was built for.
NewJob(id, t) ==
  [id |-> id, ns |-> t.ns, scaledjob |-> t.name, madeFor |-> <<t>>,
   RestartPolicy |-> "", conds |-> <<>>, CompletionTime |-> <<>>]

\* Mutant of FixRestartPolicy: an unset policy is left to the client's default.
FixRestartPolicyMissing(policy) == IF policy = "" THEN "Always" ELSE policy

\* createJobs: an unset restart policy becomes OnFailure.
FixRestartPolicy(policy) == IF policy = "" THEN "OnFailure" ELSE policy

\* The Job createJobs submits: Spec is a deep copy of the template of the
\* ScaledJob, whose restart policy is tp.
JobFromTemplate(id, t, tp) ==
  [NewJob(id, t) EXCEPT !.RestartPolicy = FixRestartPolicy(tp)]

FreeIDs == IDs \ { j.id : j \in jobs }

\* The name the remote system generates: one no stored Job has.
GenerateName == CHOOSE id \in FreeIDs : \A other \in FreeIDs : id <= other

\* The Jobs stored for target t: those built for it.
JobsOf(t) == { j \in jobs : j.madeFor = <<t>> }

\* The Jobs of target t that are not finished (what the ceiling is about).
NonFinished(t) == { j \in JobsOf(t) : ~isJobFinished(j) }

\* --------------------------------------------------------- capacity planner
\* Mutant of CountRunning: the test of isJobFinished is inverted.
CountFinished(items) ==
  Cardinality({ x \in 1..Len(items) : isJobFinished(items[x]) })

\* getRunningJobCount over the items of a successful List.
CountRunning(items) ==
  Cardinality({ x \in 1..Len(items) : ~isJobFinished(items[x]) })

\* Mutant of getRunningJobCount: a failed List counts as a full target.
getRunningJobCountFailsClosed(t, ok) ==
  IF ok THEN CountRunning(List(t)) ELSE MaxCeiling

\* getRunningJobCount: 0 when the List fails.
getRunningJobCount(t, ok) == IF ok THEN CountRunning(List(t)) ELSE 0

\* Mutant of EffectiveMaxScale: the running Jobs are not subtracted.
EffectiveMaxScaleIgnoresRunning(maxScale, runningJobCount) == maxScale

\* RequestJobScale: effectiveMaxScale = maxScale - runningJobCount, not below 0.
EffectiveMaxScale(maxScale, runningJobCount) ==
  IF maxScale - runningJobCount < 0 THEN 0 ELSE maxScale - runningJobCount

\* Mutant of ClampScaleTo: scaleTo is not clamped.
ClampScaleToMissing(scaleTo, maxScale) == scaleTo

\* createJobs: if scaleTo > maxScale { scaleTo = maxScale }.
ClampScaleTo(scaleTo, maxScale) == IF scaleTo > maxScale THEN maxScale ELSE scaleTo

\* ---------------------------------------------------------- retention pruner
\* byCompletedTime.Less: metav1.Time.Before is false when either pointer is nil.
Less(a, b) ==
  /\ a.CompletionTime # <<>>
  /\ b.CompletionTime # <<>>
  /\ a.CompletionTime[1] < b.CompletionTime[1]

\* sort.Sort on at most 12 elements is an insertion sort: element x moves
\* towards the front while Less(x, the element before it).
RECURSIVE InsertBack(_, _)
InsertBack(s, x) ==
  IF s = <<>> THEN <<x>>
  ELSE IF Less(x, s[Len(s)])
       THEN Append(InsertBack(SubSeq(s, 1, Len(s) - 1), x), s[Len(s)])
       ELSE Append(s, x)

RECURSIVE SortByCompletedTime(_)
SortByCompletedTime(s) ==
  IF s = <<>> THEN <<>>
  ELSE InsertBack(SortByCompletedTime(SubSeq(s, 1, Len(s) - 1)), s[Len(s)])

\* Mutant of Partition: a Job without finished condition falls into a class.
PartitionKeepsRunning(items, ty) ==
  SelectSeq(items, LAMBDA j : getFinishedJobConditionType(j) \in {ty, ""})

\* cleanUp's partition loop: the listed jobs whose finished condition type is ty.
RECURSIVE Partition(_, _)
Partition(items, ty) ==
  IF items = <<>> THEN <<>>
  ELSE (IF getFinishedJobConditionType(Head(items)) = ty
        THEN <<Head(items)>> ELSE <<>>) \o Partition(Tail(items), ty)

\* cleanUp: the limit in force, the default when the pointer is nil.
HistoryLimit(ptr, default) == IF ptr = <<>> THEN default ELSE ptr[1]

\* The capacity of a slice grown from []batchv1.Job{} by n appends: the
\* runtime doubles it (0, 1, 2, 4, 4, 8, ...).
RECURSIVE SliceCap(_)
SliceCap(n) ==
  IF n <= 2 THEN n
  ELSE LET c == SliceCap(n - 1) IN IF n <= c THEN c ELSE 2 * c

\* Mutant of DeleteJobLength: one Job too few is scheduled.
DeleteJobLengthOffByOne(js, limit) == Len(js) - limit - 1

\* deleteJobsWithHistoryLimit: deleteJobLength := len(jobs) - int(historyLimit).
DeleteJobLength(js, limit) == Len(js) - limit

\* deleteJobsWithHistoryLimit up to its loop: "nil" when len(jobs) <=
\* historyLimit, "panic" when jobs[0:deleteJobLength] is beyond the capacity,
\* "loop" otherwise.
BatchEntry(js, limit) ==
  IF Len(js) <= limit THEN "nil"
  ELSE IF DeleteJobLength(js, limit) > SliceCap(Len(js)) THEN "panic"
  ELSE "loop"

\* The k-th element of jobs[0:deleteJobLength]; beyond len it is a zero Job.
BatchJob(js, k) == IF k <= Len(js) THEN js[k] ELSE ZeroJob

\* ------------------------------------------------------------- invocations
T0 == [ns |-> "ns1", name |-> "a"]

\* A worker that is not inside RequestJobScale.  The fields after err record
\* the calls the invocation has made; the code does not read them.
\*   lastActive: scaledJob.Status.LastActiveTime, "entry" (the value the caller
\*               passed in) or "now"; persisted: the same for the stored status.
\*   SuccessfulJobsHistoryLimit, FailedJobsHistoryLimit: the *int32 fields of
\*               scaledJob.Spec; the lower-case fields are cleanUp's locals.
\*   createLog:  the outcome of every Create call, in order.
\*   submitted:  the restart policy of every Job handed to Create, in order.
\*   foreign:    the Jobs other invocations created for the same ScaledJob
\*               between this invocation's List and its last Create.
\*   cleanUpList: the outcome of the List of cleanUp.
\*   ctxDone:    the ctx argument is cancelled.
\*   RestartPolicy: Spec.JobTargetRef.Template.Spec.RestartPolicy of scaledJob.
Idle ==
  [pc |-> "idle", scaledJob |-> T0, isActive |-> FALSE, scaleTo |-> 0,
   maxScale |-> 0, ctxDone |-> FALSE, RestartPolicy |-> "",
   lastActive |-> "entry",
   runningJobCount |-> 0, effectiveMaxScale |-> 0, n |-> 0, i |-> 0,
   completedJobs |-> <<>>, failedJobs |-> <<>>,
   SuccessfulJobsHistoryLimit |-> <<>>, FailedJobsHistoryLimit |-> <<>>,
   successfulJobsHistoryLimit |-> 0, failedJobsHistoryLimit |-> 0,
   deleteJobLength |-> 0, k |-> 0, err |-> FALSE,
   persisted |-> "entry",
   listOk |-> FALSE, before |-> 0, idsBefore |-> {},
   updateCalls |-> 0, createLog |-> <<>>, ownerOk |-> TRUE,
   cleanUpCalls |-> 0, deleteCalls |-> <<>>, changed |-> FALSE,
   foreign |-> 0, submitted |-> <<>>, cleanUpList |-> "none"]

\* Remote calls fail and Jobs finish only a few times; the Job names suffice
\* for a full ceiling of running Jobs beside the finished ones.
Scarce == [fail |-> MaxFail, finish |-> MaxJobs - MaxCeiling]

\* Two workers call RequestJobScale for the same ScaledJob without waiting for
\* each other: active calls, history limits 0, Jobs finish at one time.
Overlapping ==
  [Unrestricted EXCEPT
     !.calls = { c \in Calls : c.isActive /\ c.scaleTo > 0 /\ c.maxScale > 0 },
     !.successLimits = {<<0>>}, !.failedLimits = {<<0>>}, !.maxTime = 1]

InitOverlap ==
  /\ jobs = {}
  /\ inv = [p \in Procs |-> Idle]
  /\ targets = {T0}
  /\ overlap = TRUE
  /\ cfg = Overlapping
  /\ budget = Scarce

\* Callers that pass a cancelled or a live ctx; the history limits are nil or
\* 0, Jobs finish at one time, and an invocation remembers the outcome of its
\* first List.
Varied ==
  [Unrestricted EXCEPT
     !.ctxs = BOOLEAN, !.history = TRUE,
     !.successLimits = {<<>>, <<0>>}, !.failedLimits = {<<>>, <<0>>},
     !.maxTime = 1]

\* ScaledJobs with any restart policy in their template; the history limits
\* are 0 and Jobs finish at one time.
Templates ==
  [Unrestricted EXCEPT
     !.policies = RestartPolicies,
     !.successLimits = {<<0>>}, !.failedLimits = {<<0>>}, !.maxTime = 1]

InitTemplates ==
  /\ jobs = {}
  /\ inv = [p \in Procs |-> Idle]
  /\ targets = {T0}
  /\ overlap = FALSE
  /\ cfg = Templates
  /\ budget = Scarce

InitCallers ==
  /\ jobs = {}
  /\ inv = [p \in Procs |-> Idle]
  /\ targets = {T0}
  /\ overlap = FALSE
  /\ cfg = Varied
  /\ budget = Unbounded

\* The caller repeats one active call with scaleTo > 0 for a ScaledJob whose
\* history limits are nil or not negative.
Repeated ==
  { [Unrestricted EXCEPT
       !.calls = {c}, !.successLimits = {sl}, !.failedLimits = {fl},
       !.maxTime = 1] :
    c \in { d \in Calls : d.isActive /\ d.scaleTo > 0 },
    sl \in { l \in LimitPtrs : l = <<>> \/ l[1] >= 0 },
    fl \in { l \in LimitPtrs : l = <<>> \/ l[1] >= 0 } }

InitLevel ==
  /\ jobs = {}
  /\ inv = [p \in Procs |-> Idle]
  /\ targets = {T0}
  /\ overlap = FALSE
  /\ cfg \in Repeated
  /\ budget = Scarce

\* A Job controller that puts any list of up to MaxConds conditions on a Job:
\* Complete, Failed or another type, with status True or False, also on a Job
\* that is finished, MaxConds conditions in all.  The history limits are 0.
Conditions ==
  [Unrestricted EXCEPT
     !.condTypes = {JobComplete, JobFailed, "Suspended"},
     !.statuses = {ConditionTrue, "False"}, !.maxConds = MaxConds,
     !.successLimits = {<<0>>}, !.failedLimits = {<<0>>}, !.maxTime = 1]

InitConditions ==
  /\ jobs = {}
  /\ inv = [p \in Procs |-> Idle]
  /\ targets = {T0}
  /\ overlap = FALSE
  /\ cfg = Conditions
  /\ budget = [fail |-> MaxFail, finish |-> MaxConds]

Init ==
  /\ jobs = {}
  /\ inv = [p \in Procs |-> Idle]
  /\ targets = {T0}
  /\ overlap = FALSE
  /\ cfg = Unrestricted
  /\ budget = Unbounded

\* A cluster with every ScaledJob of Targets.
InitTenants ==
  /\ jobs = {}
  /\ inv = [p \in Procs |-> Idle]
  /\ targets = Targets
  /\ overlap = FALSE
  /\ cfg = Unrestricted
  /\ budget = Unbounded

\* Mutant of Branch: cleanUp is called only on the active path.
BranchSkipsCleanUp(r) ==
  IF r.isActive
  THEN [r EXCEPT !.lastActive = "now", !.pc = "update"]
  ELSE [r EXCEPT !.pc = "done"]

\* Mutant of Branch: createJobs is called before updateLastActiveTime.
BranchCreatesFirst(r) ==
  IF r.isActive
  THEN [r EXCEPT !.lastActive = "now", !.i = 0,
                 !.n = ClampScaleTo(r.scaleTo, r.effectiveMaxScale),
                 !.pc = "create"]
  ELSE [r EXCEPT !.pc = "created"]

\* Mutant of Branch: the test of isActive is missing.
BranchAlwaysActive(r) == [r EXCEPT !.lastActive = "now", !.pc = "update"]

\* The branch of RequestJobScale on isActive, after effectiveMaxScale is known.
Branch(r) ==
  IF r.isActive
  THEN [r EXCEPT !.lastActive = "now", !.pc = "update"]
  ELSE [r EXCEPT !.pc = "created"]

\* RequestJobScale(ctx, scaledJob, isActive, scaleTo, maxScale) from its entry
\* to the branch on isActive: getRunningJobCount (a List that succeeds or
\* fails) and the computation of effectiveMaxScale.
RequestJobScale(p) ==
  /\ inv[p].pc = "idle"
  /\ p = 1 \/ overlap
  /\ \E t \in targets, call \in cfg.calls, ctxDone \in cfg.ctxs,
        tp \in cfg.policies, ok \in BOOLEAN :
       LET running == getRunningJobCount(t, ok)
       IN /\ ok \/ CanFail
          /\ inv' = [inv EXCEPT ![p] =
                    Branch([Idle EXCEPT
                       !.scaledJob = t, !.isActive = call.isActive,
                       !.scaleTo = call.scaleTo, !.maxScale = call.maxScale,
                       !.ctxDone = ctxDone, !.RestartPolicy = tp,
                       !.runningJobCount = running,
                       !.effectiveMaxScale =
                          EffectiveMaxScale(call.maxScale, running),
                       !.listOk = ok,
                       !.before = Cardinality(NonFinished(t))])]
          /\ budget' = IF ok THEN budget ELSE Failure
  /\ UNCHANGED <<jobs, targets, overlap, cfg>>

\* createJobs up to its loop: the clamp of scaleTo and the loop's first test.
\* ownerOk is the outcome of SetControllerReference(scaledJob, job,
\* e.reconcilerScheme): a function of the ScaledJob and the scheme, so the same
\* in every iteration of the loop (and not called at all when there is none).
EnterCreateJobs(r, ownerOk) ==
  LET n == ClampScaleTo(r.scaleTo, r.effectiveMaxScale)
  IN [r EXCEPT !.n = n, !.i = 0, !.ownerOk = (0 < n) => ownerOk,
               !.idsBefore = { j.id : j \in jobs },
               !.pc = IF 0 < n THEN "create" ELSE "created"]

\* updateLastActiveTime(ctx, ...): persists Status.LastActiveTime unless the
\* call fails or ctx is cancelled; its error is dropped.
UpdateLastActiveTime(p) ==
  /\ inv[p].pc = "update"
  /\ \E ok \in BOOLEAN, ownerOk \in BOOLEAN :
       /\ ok => ~inv[p].ctxDone
       /\ ok \/ CanFail \/ inv[p].ctxDone
       /\ inv' = [inv EXCEPT ![p] =
                 EnterCreateJobs([inv[p] EXCEPT
                    !.updateCalls = @ + 1,
                    !.persisted = IF ok THEN inv[p].lastActive ELSE @], ownerOk)]
       /\ budget' = IF ok \/ inv[p].ctxDone THEN budget ELSE Failure
  /\ UNCHANGED <<jobs, targets, overlap, cfg>>

\* Mutant of AfterCreate: a failed Create ends the loop.
AfterCreateAbort(r, ok) ==
  [r EXCEPT !.i = r.i + 1,
            !.createLog = Append(@, ok),
            !.submitted = Append(@, FixRestartPolicy(r.RestartPolicy)),
            !.pc = IF ok /\ r.i + 1 < r.n THEN "create" ELSE "created"]

\* After one iteration of the loop of createJobs, whatever its errors were.
AfterCreate(r, ok) ==
  [r EXCEPT !.i = r.i + 1,
            !.createLog = Append(@, ok),
            !.submitted = Append(@, FixRestartPolicy(r.RestartPolicy)),
            !.pc = IF r.i + 1 < r.n THEN "create" ELSE "created"]

\* An invocation q that has listed the Jobs of its ScaledJob and has not yet
\* made its last Create sees a Job created for that ScaledJob by another one.
SeesCreate(q, t) ==
  [q EXCEPT !.foreign =
      IF q.pc \in {"update", "create"} /\ q.scaledJob = t THEN @ + 1 ELSE @]

\* One iteration of the loop of createJobs: the Job is built from the template
\* and its restart policy fixed, SetControllerReference is called (its error
\* is logged; the owner reference is not read by this code), then Create
\* (with context.TODO()) stores the Job or fails.
CreateJob(p) ==
  /\ inv[p].pc = "create"
  /\ \/ /\ FreeIDs # {}
        /\ jobs' = jobs \cup
             {JobFromTemplate(GenerateName, inv[p].scaledJob, inv[p].RestartPolicy)}
        /\ inv' = [q \in Procs |->
                    IF q = p THEN AfterCreate(inv[p], TRUE)
                    ELSE SeesCreate(inv[q], inv[p].scaledJob)]
        /\ budget' = budget
     \/ /\ CanFail \/ FreeIDs = {}
        /\ jobs' = jobs
        /\ inv' = [inv EXCEPT ![p] = AfterCreate(inv[p], FALSE)]
        /\ budget' = IF FreeIDs = {} THEN budget ELSE Failure
  /\ UNCHANGED <<targets, overlap, cfg>>

\* The locals of RequestJobScale and createJobs are dead once cleanUp is
\* called: the arguments scaledJob and isActive and the status are kept.
EnterCleanUp(r) ==
  [Idle EXCEPT !.pc = "cleanUp", !.scaledJob = r.scaledJob,
               !.isActive = r.isActive, !.ctxDone = r.ctxDone,
               !.listOk = IF cfg.history THEN r.listOk ELSE FALSE,
               !.lastActive = r.lastActive, !.persisted = r.persisted,
               !.cleanUpCalls = r.cleanUpCalls + 1]

\* RequestJobScale has left its if/else and calls cleanUp.
CallCleanUp(p) ==
  /\ inv[p].pc = "created"
  /\ inv' = [inv EXCEPT ![p] = EnterCleanUp(inv[p])]
  /\ UNCHANGED <<jobs, targets, overlap, cfg, budget>>

\* cleanUp returns, and RequestJobScale after it (an error is only logged).
Return(r) == [r EXCEPT !.pc = "done"]

\* A slice expression out of range: the goroutine panics.
Panic(r) == [r EXCEPT !.pc = "panicked"]

\* cleanUp from the second call of deleteJobsWithHistoryLimit (failedJobs) on.
EnterFailed(r) ==
  LET e == BatchEntry(r.failedJobs, r.failedJobsHistoryLimit)
  IN IF e = "nil" THEN Return(r)
     ELSE IF e = "panic" THEN Panic(r)
     ELSE [r EXCEPT !.pc = "delFailed", !.k = 1,
             !.deleteJobLength =
                DeleteJobLength(r.failedJobs, r.failedJobsHistoryLimit)]

\* cleanUp from the first call of deleteJobsWithHistoryLimit (completedJobs) on.
EnterCompleted(r) ==
  LET e == BatchEntry(r.completedJobs, r.successfulJobsHistoryLimit)
  IN IF e = "nil" THEN EnterFailed(r)
     ELSE IF e = "panic" THEN Panic(r)
     ELSE [r EXCEPT !.pc = "delCompleted", !.k = 1,
             !.deleteJobLength =
                DeleteJobLength(r.completedJobs, r.successfulJobsHistoryLimit)]

\* Mutant of ListFailed: cleanUp goes on with the Jobs it saw last.
ListFailedGoesOn(r) ==
  EnterCompleted([r EXCEPT !.cleanUpList = "failed",
     !.completedJobs = SortByCompletedTime(Partition(List(r.scaledJob), JobComplete)),
     !.failedJobs = SortByCompletedTime(Partition(List(r.scaledJob), JobFailed))])

\* cleanUp when its List fails: the error is returned.
ListFailed(r) == Return([r EXCEPT !.cleanUpList = "failed", !.err = TRUE])

\* cleanUp: List, partition, sort, read the limits, enter the first batch.
CleanUp(p) ==
  /\ inv[p].pc = "cleanUp"
  /\ LET r == inv[p]
     IN \/ /\ CanFail
           /\ inv' = [inv EXCEPT ![p] = ListFailed(r)]
           /\ budget' = Failure
        \/ \E sl \in cfg.successLimits, fl \in cfg.failedLimits :
            /\ budget' = budget
            /\ inv' = [inv EXCEPT ![p] =
               EnterCompleted([r EXCEPT
                 !.cleanUpList = "ok",
                 !.SuccessfulJobsHistoryLimit = sl,
                 !.FailedJobsHistoryLimit = fl,
                 !.completedJobs =
                    SortByCompletedTime(Partition(List(r.scaledJob), JobComplete)),
                 !.failedJobs =
                    SortByCompletedTime(Partition(List(r.scaledJob), JobFailed)),
                 !.successfulJobsHistoryLimit =
                    HistoryLimit(sl, defaultSuccessfulJobsHistoryLimit),
                 !.failedJobsHistoryLimit =
                    HistoryLimit(fl, defaultFailedJobsHistoryLimit)])]
  /\ UNCHANGED <<jobs, targets, overlap, cfg>>

\* The batch the invocation is deleting.
Batch(r) == IF r.pc = "delCompleted" THEN r.completedJobs ELSE r.failedJobs

\* Mutant of AfterDelete: a failed Delete is skipped and the loop goes on.
AfterDeleteContinue(r, ok) ==
  LET c == [r EXCEPT !.err = @ \/ ~ok, !.deleteCalls =
              Append(@, [job |-> BatchJob(Batch(r), r.k), ok |-> ok, batch |-> r.pc])]
  IN IF r.k < r.deleteJobLength THEN [c EXCEPT !.k = r.k + 1]
     ELSE IF r.pc = "delCompleted" THEN EnterFailed(c)
     ELSE Return(c)

\* After a Delete call of the loop of deleteJobsWithHistoryLimit.
AfterDelete(r, ok) ==
  LET c == [r EXCEPT !.deleteCalls =
              Append(@, [job |-> BatchJob(Batch(r), r.k), ok |-> ok, batch |-> r.pc])]
  IN IF ~ok THEN Return([c EXCEPT !.err = TRUE])
     ELSE IF r.k < r.deleteJobLength THEN [c EXCEPT !.k = r.k + 1]
     ELSE IF r.pc = "delCompleted" THEN EnterFailed(c)
     ELSE Return(c)

\* One iteration of the loop of deleteJobsWithHistoryLimit: a Delete call.
\* Delete succeeds only on a Job the remote system still holds; a zero Job
\* has no name and is always refused.
DeleteJob(p) ==
  /\ inv[p].pc \in {"delCompleted", "delFailed"}
  /\ LET j == BatchJob(Batch(inv[p]), inv[p].k)
     IN \/ /\ j \in jobs
           /\ jobs' = jobs \ {j}
           /\ inv' = [inv EXCEPT ![p] = AfterDelete(inv[p], TRUE)]
           /\ budget' = budget
        \/ /\ CanFail \/ j \notin jobs
           /\ jobs' = jobs
           /\ inv' = [inv EXCEPT ![p] = AfterDelete(inv[p], FALSE)]
           /\ budget' = IF j \notin jobs THEN budget ELSE Failure
  /\ UNCHANGED <<targets, overlap, cfg>>

\* The caller has control again (after a panic: the operator is restarted).
Exit(p) ==
  /\ inv[p].pc \in {"done", "panicked"}
  /\ inv' = [inv EXCEPT ![p] = Idle]
  /\ UNCHANGED <<jobs, targets, overlap, cfg, budget>>

\* ------------------------------------------------- the remote Job controller
\* The latest time the remote system has stamped on a stored Job.
LatestTime ==
  LET ts == UNION { { j.conds[c].time : c \in 1..Len(j.conds) } : j \in jobs }
  IN IF ts = {} THEN 1 ELSE CHOOSE t \in ts : \A u \in ts : u <= t

\* The Job controller appends a status condition to a Job: in the general
\* case a Complete or Failed condition with status True to a running Job;
\* status.completionTime is set only when the Job succeeded.
\* Leaving createJobs and leaving RequestJobScale are instants: no status
\* changes in them.
FinishJob ==
  /\ \A p \in Procs : inv[p].pc \notin {"created", "done", "panicked"}
  /\ budget.finish # 0
  /\ budget' = Finished
  /\ \E j \in jobs, ty \in cfg.condTypes, st \in cfg.statuses,
        now \in LatestTime..cfg.maxTime :
       /\ Len(j.conds) < cfg.maxConds
       /\ jobs' = (jobs \ {j}) \cup
            {[j EXCEPT !.conds = Append(@, [type |-> ty, status |-> st,
                                           time |-> now]),
                       !.CompletionTime =
                          IF ty = JobComplete /\ st = ConditionTrue
                          THEN <<now>> ELSE @]}
       /\ inv' = [p \in Procs |->
                   IF inv[p].pc \in {"delCompleted", "delFailed"}
                      /\ MatchesListOptions(j, inv[p].scaledJob)
                   THEN [inv[p] EXCEPT !.changed = TRUE] ELSE inv[p]]
  /\ UNCHANGED <<targets, overlap, cfg>>

Next ==
  \/ \E p \in Procs :
       \/ RequestJobScale(p)
       \/ UpdateLastActiveTime(p)
       \/ CreateJob(p)
       \/ CallCleanUp(p)
       \/ CleanUp(p)
       \/ DeleteJob(p)
       \/ Exit(p)
  \/ FinishJob

Spec == Init /\ [][Next]_vars

SpecTenants == InitTenants /\ [][Next]_vars

SpecOverlap == InitOverlap /\ [][Next]_vars

SpecCallers == InitCallers /\ [][Next]_vars

SpecTemplates == InitTemplates /\ [][Next]_vars

\* The scaler's loop calls RequestJobScale again and again, and every call of
\* an invocation returns: some step is always taken.
SpecConditions == InitConditions /\ [][Next]_vars

SpecLevel == InitLevel /\ [][Next]_vars /\ WF_vars(Next)

\* ================================================================ properties
Min(a, b) == IF a < b THEN a ELSE b
Max(a, b) == IF a > b THEN a ELSE b
IdsOf(js) == { j.id : j \in js }
Range(seq) == { seq[x] : x \in 1..Len(seq) }

\* The time at which the remote system marked a finished Job finished.
FinishTime(j) ==
  LET hits == { c \in 1..Len(j.conds) :
                  /\ j.conds[c].type \in {JobComplete, JobFailed}
                  /\ j.conds[c].status = ConditionTrue }
  IN j.conds[CHOOSE c \in hits : \A d \in hits : c <= d].time

\* The Jobs of target t stored now whose outcome class is ty.
Retained(t, ty) == { j \in JobsOf(t) : getFinishedJobConditionType(j) = ty }

\* The Delete calls of invocation r on Jobs of outcome class ty, in order.
BatchOf(ty) == IF ty = JobComplete THEN "delCompleted" ELSE "delFailed"
CallsOf(r, ty) == SelectSeq(r.deleteCalls, LAMBDA c : c.batch = BatchOf(ty))
Deleted(r, ty) ==
  { CallsOf(r, ty)[x].job : x \in { y \in 1..Len(CallsOf(r, ty)) : CallsOf(r, ty)[y].ok } }

\* The history limit the spec gives class ty for invocation r.
LimitOf(r, ty) ==
  LET ptr == IF ty = JobComplete THEN r.SuccessfulJobsHistoryLimit
             ELSE r.FailedJobsHistoryLimit
  IN IF ptr = <<>> THEN 100 ELSE ptr[1]

\* The cleanUp of invocation r has returned nil and no Job of the target
\* changed status while it ran.
CleanPass(r) == r.pc = "done" /\ ~r.err /\ ~r.changed

\* C1: an active invocation whose running-count List succeeded has issued,
\* when createJobs returns, exactly min(scaleTo, max(0, maxScale - running))
\* Create calls, running being the non-finished Jobs of the target at the List;
\* none when running >= maxScale.
C1_CreateCount ==
  \A p \in Procs :
    LET r == inv[p] IN
    (r.pc = "created" /\ r.isActive /\ r.listOk) =>
       /\ Len(r.createLog) = Min(r.scaleTo, Max(0, r.maxScale - r.before))
       /\ (r.before >= r.maxScale => r.createLog = <<>>)

\* C1 witness: ceiling 2, one Job running, 2 desired: exactly 1 Create call.
C1_Witness ==
  \E p \in Procs :
    /\ inv[p].pc = "created" /\ inv[p].isActive /\ inv[p].listOk
    /\ inv[p].maxScale = 2 /\ inv[p].before = 1 /\ inv[p].scaleTo = 2
    /\ Len(inv[p].createLog) = 1

\* C2: with serialized invocations and a running-count List that succeeded,
\* the non-finished Jobs of the target never exceed max(maxScale, their
\* number before the invocation) while and after createJobs runs, and their
\* number grows only in a Create step of an invocation for that target.
C2_CeilingRespected ==
  /\ [](\A p \in Procs :
          (inv[p].pc \in {"create", "created"} /\ inv[p].listOk) =>
             Cardinality(NonFinished(inv[p].scaledJob))
               <= Max(inv[p].maxScale, inv[p].before))
  /\ [][\A t \in Targets :
          Cardinality(NonFinished(t)') > Cardinality(NonFinished(t)) =>
             \E p \in Procs : inv[p].pc = "create" /\ inv[p].scaledJob = t]_vars

\* C2 witness: one Job was running, the ceiling is 2, and createJobs has
\* brought the non-finished Jobs to exactly the ceiling.
C2_Witness ==
  \E p \in Procs :
    /\ inv[p].pc = "created" /\ inv[p].listOk
    /\ inv[p].before = 1 /\ inv[p].maxScale = 2
    /\ Cardinality(NonFinished(inv[p].scaledJob)) = 2

\* C3: after a cleanUp that returned nil, with no Job changing status during
\* it, each outcome class retains at most its history limit (100 when the
\* limit is not set).
C3_RetentionBound ==
  \A p \in Procs :
    CleanPass(inv[p]) =>
      \A ty \in {JobComplete, JobFailed} :
        Cardinality(Retained(inv[p].scaledJob, ty)) <= LimitOf(inv[p], ty)

\* C3 witness: a pass with limit 1 for completed Jobs deleted a Job and left
\* exactly one completed Job.
C3_Witness ==
  \E p \in Procs :
    /\ CleanPass(inv[p])
    /\ inv[p].SuccessfulJobsHistoryLimit = <<1>>
    /\ Deleted(inv[p], JobComplete) # {}
    /\ Cardinality(Retained(inv[p].scaledJob, JobComplete)) = 1

\* The Jobs of class ty deleted by the clean pass of r are the
\* max(0, size - limit) that finished earliest, deleted oldest first, and no
\* Delete call was made when size <= limit.
OldestFirst(r, ty) ==
  LET del == Deleted(r, ty)
      ret == Retained(r.scaledJob, ty)
      size == Cardinality(del) + Cardinality(ret)
      calls == CallsOf(r, ty)
  IN /\ Cardinality(del) = Max(0, size - LimitOf(r, ty))
     /\ size <= LimitOf(r, ty) => calls = <<>>
     /\ \A d \in del, k \in ret : FinishTime(d) <= FinishTime(k)
     /\ \A x, y \in 1..Len(calls) :
          x < y => FinishTime(calls[x].job) <= FinishTime(calls[y].job)

\* C4 (the claim as stated): in a clean pass the deleted Jobs of each class,
\* completed and failed alike, are the oldest ones, deleted oldest first.
C4_OldestFirstBothClasses ==
  \A p \in Procs :
    CleanPass(inv[p]) =>
      \A ty \in {JobComplete, JobFailed} : OldestFirst(inv[p], ty)

\* What holds of the code: the completed Jobs are pruned oldest first.
PrunesOldestCompleted ==
  \A p \in Procs : CleanPass(inv[p]) => OldestFirst(inv[p], JobComplete)

\* C5: when a Delete call fails, it is the last call of the invocation: the
\* earlier deletions of the batch took effect, the Job of the failed call and
\* the Jobs scheduled after it are still stored, and cleanUp returns the error.
C5_DeleteAbortsBatch ==
  \A p \in Procs :
    LET r == inv[p]
        calls == r.deleteCalls
        last == calls[Len(calls)]
        js == IF last.batch = "delCompleted" THEN r.completedJobs ELSE r.failedJobs
        mine == SelectSeq(calls, LAMBDA c : c.batch = last.batch)
        kk == Len(mine)
    IN (calls # <<>> /\ \E x \in 1..Len(calls) : ~calls[x].ok) =>
         /\ ~last.ok
         /\ r.pc = "done" /\ r.err
         /\ \A m \in 1..(kk - 1) :
              mine[m].ok /\ mine[m].job = js[m] /\ js[m] \notin jobs
         /\ last.job = BatchJob(js, kk)
         /\ \A m \in kk..r.deleteJobLength :
              m <= Len(js) => js[m] \in jobs

\* C5 witness: the 2nd of 3 scheduled deletions failed.
C5_Witness ==
  \E p \in Procs :
    /\ inv[p].pc = "done" /\ inv[p].err
    /\ inv[p].deleteJobLength = 3
    /\ Len(inv[p].deleteCalls) = 2
    /\ inv[p].deleteCalls[1].ok /\ ~inv[p].deleteCalls[2].ok

\* C6: when createJobs returns it has issued one Create call for each of the
\* min(scaleTo, effectiveMaxScale) Jobs, whatever Create or
\* SetControllerReference calls failed, and the Jobs that are new in the
\* remote system are as many as the Create calls that succeeded.
C6_BestEffortCreate ==
  \A p \in Procs :
    LET r == inv[p]
        oks == { x \in 1..Len(r.createLog) : r.createLog[x] }
    IN (r.pc = "created" /\ r.isActive) =>
         /\ Len(r.createLog) = Min(r.scaleTo, r.effectiveMaxScale)
         /\ Cardinality(IdsOf(jobs) \ r.idsBefore) = Cardinality(oks)

\* C6 witness: SetControllerReference failed, the first Create failed, the
\* second Create was still issued and succeeded.
C6_Witness ==
  \E p \in Procs :
    /\ inv[p].pc = "created" /\ inv[p].isActive /\ ~inv[p].ownerOk
    /\ inv[p].createLog = <<FALSE, TRUE>>

\* C7: an invocation that has ended has called cleanUp exactly once, it has
\* not called it before createJobs returned, and no Job is created once
\* cleanUp has been called.
C7_CleanUpOnce ==
  /\ [](\A p \in Procs :
          /\ inv[p].pc \in {"done", "panicked", "cleanUp", "delCompleted", "delFailed"}
               => inv[p].cleanUpCalls = 1
          /\ inv[p].pc \in {"update", "create", "created"}
               => inv[p].cleanUpCalls = 0)
  /\ [][(\E p \in Procs : inv[p].cleanUpCalls > 0) =>
          IdsOf(jobs') \subseteq IdsOf(jobs)]_vars

\* C7 witness: an active invocation whose status update failed has ended
\* after calling cleanUp.
C7_Witness ==
  \E p \in Procs :
    /\ inv[p].pc = "done" /\ inv[p].isActive
    /\ inv[p].persisted = "entry" /\ inv[p].cleanUpCalls = 1

\* C8: an invocation with isActive = FALSE makes no Create call and no status
\* update, leaves LastActiveTime as it was, and no step taken while it runs
\* adds a Job.
C8_InactiveFrame ==
  /\ [](\A p \in Procs :
          (inv[p].pc # "idle" /\ ~inv[p].isActive) =>
             /\ inv[p].createLog = <<>>
             /\ inv[p].updateCalls = 0
             /\ inv[p].lastActive = "entry"
             /\ inv[p].persisted = "entry")
  /\ [][(\E p \in Procs : inv[p].pc # "idle" /\ ~inv[p].isActive) =>
          IdsOf(jobs') \subseteq IdsOf(jobs)]_vars

\* C8 witness: an inactive invocation with scaleTo 2 and ceiling 2, no Job
\* running, has passed the creation step.
C8_Witness ==
  \E p \in Procs :
    /\ inv[p].pc = "created" /\ ~inv[p].isActive /\ inv[p].listOk
    /\ inv[p].scaleTo = 2 /\ inv[p].maxScale = 2 /\ inv[p].before = 0

\* C9 (the claim as stated): no invocation raises; every invocation returns.
C9_NeverRaises == \A p \in Procs : inv[p].pc # "panicked"

\* C10: every stored Job carries the namespace and the "scaledjob" label of
\* the ScaledJob it was built for; the List of a target returns exactly the
\* Jobs built for it; an invocation deletes only Jobs of its own target and
\* its running count is the number of its own non-finished Jobs.
C10_OwnershipLabel ==
  /\ \A j \in jobs : \E t \in Targets :
       j.madeFor = <<t>> /\ j.ns = t.ns /\ j.scaledjob = t.name
  /\ \A t \in Targets : Range(List(t)) = JobsOf(t)
  /\ \A p \in Procs :
       /\ \A x \in 1..Len(inv[p].deleteCalls) :
            inv[p].deleteCalls[x].ok =>
               inv[p].deleteCalls[x].job.madeFor = <<inv[p].scaledJob>>
       /\ (inv[p].pc \in {"update", "create", "created"} /\ inv[p].listOk) =>
            inv[p].runningJobCount = inv[p].before

\* C10 witness: an invocation has deleted a Job of its target while a
\* finished Job of the other target is stored.
C10_Witness ==
  \E p \in Procs :
    /\ inv[p].pc = "done"
    /\ \E x \in 1..Len(inv[p].deleteCalls) : inv[p].deleteCalls[x].ok
    /\ \E j \in jobs : j.madeFor # <<inv[p].scaledJob>> /\ isJobFinished(j)

\* C11: when invocations for the same ScaledJob overlap, the non-finished Jobs
\* can exceed the ceiling, but between the List of an invocation (that
\* succeeded) and its last Create they exceed max(maxScale, their number at
\* the List) by no more than the Jobs other invocations created in between;
\* an invocation that saw no such Job does not overshoot.
C11_OverlapBound ==
  /\ [](\A p \in Procs :
          (inv[p].pc \in {"update", "create"} /\ inv[p].listOk) =>
             Cardinality(NonFinished(inv[p].scaledJob))
               <= Max(inv[p].maxScale, inv[p].before) + inv[p].foreign)
  /\ [][\A p \in Procs :
          (inv[p].pc = "create" /\ inv[p].listOk) =>
             Cardinality(NonFinished(inv[p].scaledJob))'
               <= Max(inv[p].maxScale, inv[p].before) + inv'[p].foreign]_vars

\* C11 witness: both invocations listed no running Job under ceiling 1, each
\* created one: 2 Jobs run, 1 above the ceiling, 1 created by the other.
C11_Witness ==
  \E p \in Procs :
    /\ inv[p].pc = "created" /\ inv[p].listOk
    /\ inv[p].before = 0 /\ inv[p].maxScale = 1 /\ inv[p].foreign = 1
    /\ Cardinality(NonFinished(inv[p].scaledJob)) = 2

\* C12: when the List of getRunningJobCount fails, the running count is taken
\* as 0: an active invocation goes on to createJobs and issues
\* min(scaleTo, maxScale) Create calls, however many Jobs are running.
C12_ListFailureCountsZero ==
  \A p \in Procs :
    LET r == inv[p] IN
    (r.isActive /\ ~r.listOk) =>
      /\ r.pc \in {"update", "create", "created"} =>
            r.runningJobCount = 0 /\ r.effectiveMaxScale = r.maxScale
      /\ r.pc = "created" => Len(r.createLog) = Min(r.scaleTo, r.maxScale)

\* C12 witness: 2 Jobs run under ceiling 2, the List failed, and 2 Create
\* calls were issued, one of which stored a third running Job.
C12_Witness ==
  \E p \in Procs :
    /\ inv[p].pc = "created" /\ inv[p].isActive /\ ~inv[p].listOk
    /\ inv[p].before = 2 /\ inv[p].maxScale = 2 /\ inv[p].scaleTo = 2
    /\ Len(inv[p].createLog) = 2
    /\ Cardinality(NonFinished(inv[p].scaledJob)) = 3

\* C13: when the List of cleanUp fails, cleanUp issues no Delete call, leaves
\* the stored Jobs as they are and returns the error, whether the List of
\* getRunningJobCount of the same invocation succeeded or failed.
C13_CleanUpListFailure ==
  /\ [](\A p \in Procs :
          inv[p].cleanUpList = "failed" =>
             inv[p].pc = "done" /\ inv[p].err /\ inv[p].deleteCalls = <<>>)
  /\ [][\A p \in Procs :
          (inv[p].pc = "cleanUp" /\ inv'[p].cleanUpList = "failed") =>
             jobs' = jobs]_vars

\* C13 witness: both Lists of an active invocation failed while a finished
\* Job is stored.
C13_Witness ==
  \E p \in Procs :
    /\ inv[p].cleanUpList = "failed" /\ inv[p].isActive /\ ~inv[p].listOk
    /\ \E j \in jobs : isJobFinished(j)

\* The same pass after a first List that succeeded.
C13_AfterGoodList ==
  \E p \in Procs :
    /\ inv[p].cleanUpList = "failed" /\ inv[p].isActive /\ inv[p].listOk
    /\ \E j \in jobs : isJobFinished(j)

\* The history limits of the pass of r are not negative.
LimitsNotNegative(r) ==
  LimitOf(r, JobComplete) >= 0 /\ LimitOf(r, JobFailed) >= 0

\* C14 (the claim as stated): the two classes are pruned independently: in a
\* pass whose List succeeded and that found more failed Jobs than their
\* limit, Delete calls for failed Jobs are issued, whatever the outcome of
\* the Delete calls for completed Jobs was.
C14_PartitionsIndependent ==
  \A p \in Procs :
    LET r == inv[p] IN
    (/\ r.pc = "done" /\ r.cleanUpList = "ok" /\ LimitsNotNegative(r)
     /\ Len(r.failedJobs) > r.failedJobsHistoryLimit)
      => CallsOf(r, JobFailed) # <<>>

\* What holds of the code: the failed Jobs are pruned in a pass exactly when
\* no Delete call for a completed Job failed.
FailedPrunedUnlessCompletedFailed ==
  \A p \in Procs :
    LET r == inv[p] IN
    (/\ r.pc = "done" /\ r.cleanUpList = "ok" /\ LimitsNotNegative(r)
     /\ Len(r.failedJobs) > r.failedJobsHistoryLimit)
      => (CallsOf(r, JobFailed) # <<>>
            <=> \A x \in 1..Len(CallsOf(r, JobComplete)) :
                   CallsOf(r, JobComplete)[x].ok)

\* C15: an active invocation sets LastActiveTime, then calls
\* updateLastActiveTime, then issues its Create calls, then its Delete calls:
\* no Create call is made before the update call, and no Create call is made
\* once cleanUp runs.
C15_ActiveOrder ==
  /\ [](\A p \in Procs :
          /\ inv[p].pc = "update" =>
               /\ inv[p].lastActive = "now" /\ inv[p].updateCalls = 0
               /\ inv[p].createLog = <<>> /\ inv[p].deleteCalls = <<>>
          /\ (inv[p].pc \in {"create", "created"} /\ inv[p].isActive) =>
               /\ inv[p].lastActive = "now" /\ inv[p].updateCalls = 1
               /\ inv[p].deleteCalls = <<>>)
  /\ [][\A p \in Procs :
          /\ Len(inv'[p].createLog) > Len(inv[p].createLog) =>
               inv[p].updateCalls = 1 /\ inv[p].cleanUpCalls = 0
          /\ inv[p].cleanUpCalls > 0 => inv'[p].pc \notin {"update", "create"}
          /\ Len(inv'[p].deleteCalls) > Len(inv[p].deleteCalls) =>
               inv[p].cleanUpCalls = 1]_vars

\* C15 witness: an active invocation whose update was stored has created two
\* Jobs, one after the other, before any Delete call.
C15_Witness ==
  \E p \in Procs :
    /\ inv[p].pc = "created" /\ inv[p].isActive
    /\ inv[p].persisted = "now" /\ inv[p].updateCalls = 1
    /\ inv[p].createLog = <<TRUE, TRUE>> /\ inv[p].deleteCalls = <<>>
    /\ \E j \in jobs : isJobFinished(j)

\* C16 (the claim as stated): every remote call honors the cancellation of
\* ctx: an invocation whose ctx is cancelled completes no List, no Create and
\* no Delete call.
C16_HonorsCancellation ==
  \A p \in Procs :
    LET r == inv[p] IN
    (r.pc # "idle" /\ r.ctxDone) =>
      /\ ~r.listOk /\ r.cleanUpList # "ok"
      /\ \A x \in 1..Len(r.createLog) : ~r.createLog[x]
      /\ \A x \in 1..Len(r.deleteCalls) : ~r.deleteCalls[x].ok

\* The ceiling of the repeated call.
Ceiling == (CHOOSE c \in cfg.calls : TRUE).maxScale

\* The state repeated invocations settle in: a full ceiling of non-finished
\* Jobs and no outcome class above its history limit.
Settled ==
  LET sl == CHOOSE l \in cfg.successLimits : TRUE
      fl == CHOOSE l \in cfg.failedLimits : TRUE
  IN /\ Cardinality(NonFinished(T0)) >= Ceiling
     /\ Cardinality(Retained(T0, JobComplete)) <= (IF sl = <<>> THEN 100 ELSE sl[1])
     /\ Cardinality(Retained(T0, JobFailed)) <= (IF fl = <<>> THEN 100 ELSE fl[1])

\* Repeated invocations reach a settled state and from then on change no Job.
Converges == <>[]Settled /\ <>[][jobs' = jobs]_vars

\* C17 (the claim as stated): repeated invocations converge, and no Create
\* takes the non-finished Jobs beyond the ceiling.
C17_LevelTriggered ==
  /\ Converges
  /\ [][Cardinality(NonFinished(T0))' > Cardinality(NonFinished(T0)) =>
          Cardinality(NonFinished(T0))' <= Ceiling]_vars

\* What holds of the code: repeated invocations converge, and no Create of an
\* invocation whose first List succeeded takes the non-finished Jobs beyond
\* the ceiling.
ConvergesWithinCeilingAfterList ==
  /\ Converges
  /\ [][\A p \in Procs :
          (/\ Cardinality(NonFinished(T0))' > Cardinality(NonFinished(T0))
           /\ inv[p].pc = "create" /\ inv[p].listOk) =>
             Cardinality(NonFinished(T0))' <= Ceiling]_vars

\* A settled state of that kind: after a remote call failed, a later
\* invocation has deleted the finished Job (limit 0) and the ceiling of 2 Jobs
\* is running.
SettledAfterFailure ==
  /\ budget.fail = 0 /\ budget.finish = 0
  /\ cfg.successLimits = {<<0>>} /\ Ceiling = 2
  /\ inv[1].pc = "done" /\ ~inv[1].err
  /\ \E x \in 1..Len(inv[1].deleteCalls) : inv[1].deleteCalls[x].ok
  /\ Settled /\ Cardinality(NonFinished(T0)) = 2

\* The restart policy the spec gives a Job built from a template with policy tp.
Expected(tp) == IF tp = "" THEN "OnFailure" ELSE tp

\* C18: every Job handed to Create has restart policy OnFailure when the
\* template of the ScaledJob sets none, and the policy of the template
\* otherwise; so has every Job a Create call stores.
C18_RestartPolicy ==
  /\ [](\A p \in Procs :
          inv[p].pc \in {"create", "created"} =>
            \A x \in 1..Len(inv[p].submitted) :
              inv[p].submitted[x] = Expected(inv[p].RestartPolicy))
  /\ [][\A p \in Procs :
          Len(inv'[p].createLog) > Len(inv[p].createLog) =>
            /\ Len(inv'[p].submitted) = Len(inv'[p].createLog)
            /\ \A j \in jobs' :
                 j.id \notin IdsOf(jobs) =>
                   j.RestartPolicy = Expected(inv[p].RestartPolicy)]_vars

\* C18 witness: two Jobs were submitted from a template without restart
\* policy while Jobs built from templates with Never and Always are stored.
C18_Witness ==
  \E p \in Procs :
    /\ inv[p].pc = "created" /\ inv[p].RestartPolicy = ""
    /\ inv[p].submitted = <<"OnFailure", "OnFailure">>
    /\ \E j \in jobs : j.RestartPolicy = "Never"
    /\ \E j \in jobs : j.RestartPolicy = "Always"

\* C19: with history limits that are not negative, every Delete call is for
\* a Job that was finished when cleanUp listed it; and, whatever the limits,
\* no step removes a stored Job that is not finished.
C19_NeverDeletesRunning ==
  /\ [](\A p \in Procs :
          LimitsNotNegative(inv[p]) =>
            \A x \in 1..Len(inv[p].deleteCalls) :
              isJobFinished(inv[p].deleteCalls[x].job))
  /\ [][\A j \in jobs :
          ~isJobFinished(j) => \E k \in jobs' : k.id = j.id]_vars

\* C19 witness: an active invocation with limit 0 has deleted a finished Job
\* and ended while two Jobs that are not finished are still stored.
C19_Witness ==
  \E p \in Procs :
    /\ inv[p].pc = "done" /\ inv[p].isActive /\ LimitsNotNegative(inv[p])
    /\ inv[p].SuccessfulJobsHistoryLimit = <<0>>
    /\ inv[p].FailedJobsHistoryLimit = <<0>>
    /\ \E x \in 1..Len(inv[p].deleteCalls) : inv[p].deleteCalls[x].ok
    /\ Cardinality(NonFinished(inv[p].scaledJob)) = 2

\* C20: getRunningJobCount and cleanUp classify alike: a listed Job counts as
\* running exactly when it is in neither the completed nor the failed
\* partition, no Job is in both, and running + completed + failed is the
\* number of listed Jobs, for every list of conditions on the Jobs.
C20_ClassificationPartition ==
  /\ [](\A t \in targets :
          LET items == List(t) IN
          /\ CountRunning(items) + Len(Partition(items, JobComplete))
                + Len(Partition(items, JobFailed)) = Len(items)
          /\ \A x \in 1..Len(items) :
               LET inC == Partition(<<items[x]>>, JobComplete) # <<>>
                   inF == Partition(<<items[x]>>, JobFailed) # <<>>
               IN /\ ~(inC /\ inF)
                  /\ CountRunning(<<items[x]>>) = 1 <=> (~inC /\ ~inF))
  /\ [][\A p \in Procs :
          (inv[p].pc = "cleanUp" /\ inv'[p].cleanUpList = "ok") =>
             Len(inv'[p].completedJobs) + Len(inv'[p].failedJobs)
               + CountRunning(List(inv[p].scaledJob))
                 = Len(List(inv[p].scaledJob))]_vars

\* C20 witness: cleanUp has put into the failed partition a Job whose
\* conditions are Failed and Complete, both with status True.
C20_Witness ==
  \E p \in Procs :
    /\ inv[p].cleanUpList = "ok"
    /\ \E x \in 1..Len(inv[p].failedJobs) :
         LET cs == inv[p].failedJobs[x].conds IN
         /\ Len(cs) = 2
         /\ cs[1].type = JobFailed /\ cs[1].status = ConditionTrue
         /\ cs[2].type = JobComplete /\ cs[2].status = ConditionTrue

\* A Job whose only terminal condition has status False is listed and counts
\* as running.
RunningWithFalseCondition ==
  \E j \in jobs :
    /\ Len(j.conds) = 1 /\ j.conds[1].type = JobComplete
    /\ j.conds[1].status = "False" /\ CountRunning(List(T0)) >= 1

====
